---------------------------- MODULE Spec2Model ----------------------------
(***************************************************************************)
(* State-machine model of telegram_subscription_bot.py: the record store,  *)
(* the operator registry, the guided add flow, the command / button        *)
(* dispatcher and the backup scheduler.                                    *)
(*                                                                         *)
(* Representation choices                                                  *)
(*  - Every inbound payload (message text, command argument, button token  *)
(*    part) is a string; int(), str.isdigit(), str.strip() and parse_date  *)
(*    are tables over the finite set of strings the model feeds in.        *)
(*  - An instant is a whole number of days since 2025-01-01 00:00 in       *)
(*    DEFAULT_TZ.  parse_date returns local midnight and every duration is *)
(*    a whole number of days, so all instants the program stores are of    *)
(*    this form.  The wall clock is read in minutes, and Midnight(d) is    *)
(*    the clock reading at the start of day d.                             *)
(*  - Settings are stored by the program as str(n) and read back with      *)
(*    int(...); the model stores the integer.  backup_enabled is "0"/"1".  *)
(*  - A handler is an operator from the state (a record of the variables)  *)
(*    and the event's inputs to the state after the handler returned; an   *)
(*    action applies one handler to the current state.                     *)
(***************************************************************************)
EXTENDS Integers, Sequences, FiniteSets, TLC

VARIABLES
    admins,     \* admins table: chat ids in insertion (row id) order
    products,   \* products table: row id = index, rows are never deleted
    settings,   \* settings table: key -> value
    jobs,       \* jobs currently scheduled in app.job_queue (in-memory)
    conv,       \* ConversationHandler "add_conv": <<user, chat>> -> state
    user_data,  \* context.user_data: user -> [new_desc, awaiting_admin_action]
    env,        \* process environment: ADMIN_CHAT_ID seed, JobQueue availability
    hist,       \* history: the last completed backup configuration action,
                \* whether a recurring backup fired after a backup:off and
                \* before the next backup:on, per user the description
                \* last entered and not yet cancelled or consumed, the
                \* description the last cancellation discarded, the clock
                \* reading of the last completed backup:on (-1 after a
                \* backup:off) and of the first backup fire since (-1: none)
    now,        \* the wall clock, in minutes since 2025-01-01 00:00
    pending,    \* on_button coroutines suspended at `await query.answer()`
    fanout      \* the delivery loop of the fan-out started last

vars ==
    <<admins, products, settings, jobs, conv, user_data, env, hist,
      now, pending, fanout>>

-----------------------------------------------------------------------------
(* Bounds of the model                                                     *)

\* at most this many rows are inserted into products
MaxProducts == 2
\* renewals are fed only while |duration_days| of every row is at most this
MaxTotalDays == 40
\* at most this many rows are inserted in the record-store specification
MaxStoreProducts == 1
\* the clock of the grace-window specification advances up to this minute
MaxMinutes == 7

(* Program constants                                                       *)
DEFAULT_DURATION_DAYS == 30
DEFAULT_BACKUP_INTERVAL_HOURS == 24
SECONDS_PER_HOUR == 3600
GRACE_MINUTES == 5
LIST_EXPIRED_LIMIT == 200

\* requesters (Telegram user ids) and the kinds of chat an event comes from
Users == {101, 102}
ChatKinds == {"private", "group"}

\* ConversationHandler states; END is "no conversation for this key"
END == "END"
ASK_DESC == "ASK_DESC"
ASK_DATE == "ASK_DATE"

\* absent dictionary key / SQL NULL
None == "\\None"

-----------------------------------------------------------------------------
(* String tables                                                           *)

\* int(text): defined exactly on the integer literals
IntTable ==
    [t \in {"-40", "-1", "0", "1", "2", "3", "6", "10", "12", "60",
            "101", "102", "103"} |->
        CASE t = "-40" -> -40 [] t = "-1" -> -1 [] t = "0" -> 0 [] t = "1" -> 1
          [] t = "2" -> 2 [] t = "3" -> 3 [] t = "6" -> 6 [] t = "10" -> 10
          [] t = "12" -> 12 [] t = "60" -> 60
          [] t = "101" -> 101 [] t = "102" -> 102 [] t = "103" -> 103]

IsInt(t) == t \in DOMAIN IntTable
int(t) == IntTable[t]

\* the one-character text U+00B2 (superscript two): a digit for
\* str.isdigit(), no literal for int()
SuperscriptTwo == "\\u00b2"

\* str.isdigit(): non-empty, every character a digit (no sign)
isdigit(t) == (IsInt(t) /\ int(t) >= 0) \/ t = SuperscriptTwo

\* str.strip()
strip(t) ==
    CASE t = " "     -> ""
      [] t = " Web " -> "Web"
      [] OTHER       -> t

\* dateutil's parse on the texts of the model: the calendar date (days since
\* 2025-01-01) or a ParserError.  The chat-id literals stand for 9-10 digit
\* ids, which dateutil rejects.
DateTable ==
    [t \in {"2025-01-01", "14/01/2025"} |->
        CASE t = "2025-01-01" -> 0 [] t = "14/01/2025" -> 13]

\* parse_date(text) raises exactly when the text is not in the table
parse_date_raises(text) == text \notin DOMAIN DateTable
parse_date(text) == DateTable[text]

Range(f) == {f[i] : i \in DOMAIN f}

Max(a, b) == IF a >= b THEN a ELSE b

\* the instant of local midnight of day d, in minutes
Midnight(d) == d * 24 * 60
Min(a, b) == IF a <= b THEN a ELSE b

\* the orderings of a finite set
Perms(S) ==
    {q \in [1..Cardinality(S) -> S] :
        \A j, k \in 1..Cardinality(S) : q[j] = q[k] => j = k}

-----------------------------------------------------------------------------
(* The state as one record, and the outcome fields a handler fills in      *)

St ==
    [admins |-> admins, products |-> products, settings |-> settings,
     jobs |-> jobs, conv |-> conv, user_data |-> user_data, env |-> env,
     now |-> now,
     handler |-> "none", auth |-> "n/a", reply |-> "none", rows |-> {}]

Reply(s, r) == [s EXCEPT !.reply = r]
\* the handler raised in state s: the application logs the exception and the
\* requester gets no reply
Raised(s) == [s EXCEPT !.reply = "raised"]
Ran(s, h) == [s EXCEPT !.handler = h]

-----------------------------------------------------------------------------
(* Data layer                                                              *)

get_admin_ids(s) == s.admins

\* INSERT OR IGNORE on the UNIQUE chat_id column
add_admin_id(s, chat_id) ==
    IF chat_id \in Range(s.admins) THEN s
    ELSE [s EXCEPT !.admins = Append(@, chat_id)]

\* DELETE ... WHERE chat_id=?; the result is rowcount > 0
remove_admin_id(s, chat_id) ==
    [s EXCEPT !.admins = SelectSeq(@, LAMBDA x : x # chat_id)]
remove_admin_id_found(s, chat_id) == chat_id \in Range(s.admins)

set_setting(s, key, value) == [s EXCEPT !.settings[key] = value]
get_default_days(s) == s.settings["default_duration_days"]
set_default_days(s, n) == set_setting(s, "default_duration_days", n)
is_backup_enabled(s) == s.settings["backup_enabled"] = "1"
get_backup_interval_hours(s) == s.settings["backup_interval_hours"]

\* faulty variant, for comparison: the built-in default instead of the configured one
compute_expiry_builtin_default(s, purchase_dt) == purchase_dt + DEFAULT_DURATION_DAYS

compute_expiry(s, purchase_dt) == purchase_dt + get_default_days(s)

-----------------------------------------------------------------------------
(* Authorization                                                           *)

is_admin_any_chat(s, user, chat) ==
    IF get_admin_ids(s) = <<>> THEN TRUE ELSE user \in Range(get_admin_ids(s))

is_admin(s, user, chat) ==
    IF get_admin_ids(s) = <<>>
    THEN chat = "private"
    ELSE user \in Range(get_admin_ids(s))

\* guard_admin's two outcomes: the denial reply, or the handler goes on
Denied(s) == [s EXCEPT !.auth = "no", !.reply = "denied"]
Allowed(s) == [s EXCEPT !.auth = "yes"]

-----------------------------------------------------------------------------
(* Scheduler                                                               *)

BackupJobs(js) == SelectSeq(js, LAMBDA j : j.name = "backup_job")
DailyJobs(js) == SelectSeq(js, LAMBDA j : j.name = "daily_summary")

\* faulty variant, for comparison: the old jobs are left in the queue
keep_old_backup_jobs(js) == js

\* faulty variant, for comparison: every job of the queue is removed
remove_all_jobs(js) == <<>>

\* for job in get_jobs_by_name("backup_job"): job.schedule_removal()
remove_old_backup_jobs(js) == SelectSeq(js, LAMBDA j : j.name # "backup_job")

\* faulty variant, for comparison: the first run is due at once
new_backup_job_immediate(s) ==
    [name |-> "backup_job",
     interval |-> Max(1, get_backup_interval_hours(s)) * SECONDS_PER_HOUR,
     first |-> s.now]

\* first is the instant of the first run: now + timedelta(minutes=5)
new_backup_job(s) ==
    [name |-> "backup_job",
     interval |-> Max(1, get_backup_interval_hours(s)) * SECONDS_PER_HOUR,
     first |-> s.now + GRACE_MINUTES]

\* faulty variant, for comparison: the enabled flag is not consulted
reschedule_ignoring_flag(s) ==
    IF ~s.env.job_queue THEN s
    ELSE [s EXCEPT !.jobs = Append(remove_old_backup_jobs(@), new_backup_job(s))]

reschedule_backup_job(s) ==
    IF ~s.env.job_queue THEN s
    ELSE IF ~is_backup_enabled(s)
         THEN [s EXCEPT !.jobs = remove_old_backup_jobs(@)]
         ELSE [s EXCEPT !.jobs = Append(remove_old_backup_jobs(@), new_backup_job(s))]

\* both fan-outs deliver to the registered operators and write nothing
send_backup_to_admins(s) == s
daily_summary(s) == s

-----------------------------------------------------------------------------
(* Add flow (ConversationHandler "add_conv", keyed by user and chat)       *)

SetConv(s, user, chat, state) == [s EXCEPT !.conv[<<user, chat>>] = state]
\* faulty variant, for comparison: one dictionary shared by all requesters
PopNewDesc_shared(s, user) ==
    [s EXCEPT !.user_data = [u \in Users |-> [@[u] EXCEPT !.new_desc = None]]]

\* context.user_data is the dictionary of the update's user
PopNewDesc(s, user) == [s EXCEPT !.user_data[user].new_desc = None]

add_start(s, user, chat) ==
    IF ~is_admin(s, user, chat)
    THEN SetConv(Denied(s), user, chat, END)
    ELSE SetConv(Reply(Allowed(s), "prompt_desc"), user, chat, ASK_DESC)

add_got_desc(s, user, chat, text) ==
    SetConv(Reply([s EXCEPT !.user_data[user].new_desc = strip(text)], "prompt_date"),
            user, chat, ASK_DATE)

NewRow(desc, pdate, days, expires) ==
    [description |-> desc, purchase_date |-> pdate, duration_days |-> days,
     expires_at |-> expires, is_active |-> 1]

\* the try body; the finally clause and the return follow in add_got_date
add_got_date_try(s, user, text) ==
    LET desc == s.user_data[user].new_desc IN
    IF desc = None \/ desc = ""
    THEN Reply(s, "need_desc")
    ELSE IF parse_date_raises(strip(text))
    THEN Reply(s, "error")
    ELSE LET pdate_local == parse_date(strip(text))
             expires == compute_expiry(s, pdate_local)
         IN Reply([s EXCEPT !.products =
                       Append(@, NewRow(desc, pdate_local, get_default_days(s), expires))],
                  "saved")

add_got_date(s, user, chat, text) ==
    SetConv(PopNewDesc(add_got_date_try(s, user, text), user), user, chat, END)

\* faulty variant, for comparison: the pending description is left behind
add_cancel_keeps_desc(s, user, chat) ==
    SetConv(Reply(s, "cancelled"), user, chat, END)

add_cancel(s, user, chat) ==
    SetConv(Reply(PopNewDesc(s, user), "cancelled"), user, chat, END)

-----------------------------------------------------------------------------
(* Read-only commands                                                      *)

list_active(s, user, chat) ==
    IF ~is_admin(s, user, chat) THEN Denied(s) ELSE Reply(Allowed(s), "list")

\* faulty variant, for comparison: finished rows are selected too
select_expired_ids_any_flag(s, at) ==
    {i \in DOMAIN s.products : Midnight(s.products[i].expires_at) <= at}

\* WHERE is_active=1 AND datetime(expires_at) <= datetime(?)
select_expired_ids(s, at) ==
    {i \in DOMAIN s.products :
        s.products[i].is_active = 1 /\ Midnight(s.products[i].expires_at) <= at}

\* ORDER BY datetime(expires_at) ASC LIMIT 200: the listings (sequences of row
\* ids) the query may return; SQL leaves the order of rows of equal expiry open
select_expired(s, at) ==
    {SubSeq(q, 1, Min(Len(q), LIST_EXPIRED_LIMIT)) :
        q \in {p \in Perms(select_expired_ids(s, at)) :
                  \A j, k \in DOMAIN p :
                      j < k => s.products[p[j]].expires_at <= s.products[p[k]].expires_at}}

\* the outcome field rows holds the listings the query may have returned
list_expired(s, user, chat) ==
    IF ~is_admin(s, user, chat) THEN Denied(s)
    ELSE LET rows == select_expired(s, s.now) IN
         IF rows = {<<>>} THEN Reply(Allowed(s), "none_expired")
         ELSE [Reply(Allowed(s), "expired") EXCEPT !.rows = rows]

start(s, user, chat) ==
    IF ~is_admin(s, user, chat) THEN [s EXCEPT !.auth = "no"]
    ELSE Reply(Allowed(s), "menu_home")

-----------------------------------------------------------------------------
(* Renew / finish / settings commands                                      *)

HasRow(s, pid) == pid \in 1..Len(s.products)

\* faulty variant, for comparison: the expiry is recomputed from the purchase date
renew_row_from_purchase(row, extra_days) ==
    [row EXCEPT !.expires_at = row.purchase_date + extra_days,
                !.duration_days = @ + extra_days]

\* faulty variant, for comparison: a renewal makes the row active again
renew_row_reactivating(row, extra_days) ==
    [row EXCEPT !.expires_at = @ + extra_days, !.duration_days = @ + extra_days,
                !.is_active = 1]

\* base_expiry + timedelta(days), duration_days = duration_days + ?
renew_row(row, extra_days) ==
    [row EXCEPT !.expires_at = @ + extra_days, !.duration_days = @ + extra_days]

renew(s, user, chat, args) ==
    IF ~is_admin(s, user, chat) THEN Denied(s)
    ELSE LET a == Allowed(s) IN
    IF args = <<>> THEN Reply(a, "usage")
    ELSE IF ~IsInt(args[1]) \/ (Len(args) >= 2 /\ ~IsInt(args[2]))
    THEN Reply(a, "invalid")
    ELSE LET pid == int(args[1])
             extra_days == IF Len(args) >= 2 THEN int(args[2]) ELSE get_default_days(s)
         IN IF ~HasRow(s, pid) THEN Reply(a, "not_found")
            ELSE Reply([a EXCEPT !.products[pid] = renew_row(@, extra_days)], "renewed")

\* faulty variant, for comparison: the flag is flipped
finish_row_toggle(row) == [row EXCEPT !.is_active = 1 - @]

finish_row(row) == [row EXCEPT !.is_active = 0]

\* UPDATE ... WHERE id=? touches the row when it exists; the reply is the same
finish_update(s, pid) ==
    IF HasRow(s, pid) THEN [s EXCEPT !.products[pid] = finish_row(@)] ELSE s

finish(s, user, chat, args) ==
    IF ~is_admin(s, user, chat) THEN Denied(s)
    ELSE LET a == Allowed(s) IN
    IF args = <<>> THEN Reply(a, "usage")
    ELSE IF ~IsInt(args[1]) THEN Reply(a, "invalid")
    ELSE Reply(finish_update(a, int(args[1])), "closed")

set_default(s, user, chat, args) ==
    IF ~is_admin(s, user, chat) THEN Denied(s)
    ELSE LET a == Allowed(s) IN
    IF args = <<>> THEN Reply(a, "choose_days")
    ELSE IF ~IsInt(args[1]) THEN Reply(a, "invalid")
    ELSE IF int(args[1]) <= 0 THEN Reply(a, "invalid")
    ELSE Reply(set_default_days(a, int(args[1])), "default_set")

-----------------------------------------------------------------------------
(* Operator management                                                     *)

SetAwaiting(s, user, action) ==
    [s EXCEPT !.user_data[user].awaiting_admin_action = action]

handle_admins_menu(s, user, sub) ==
    IF sub = "list" THEN Reply(s, "admins_list")
    ELSE IF sub = "add" THEN Reply(SetAwaiting(s, user, "add"), "prompt_admin_id")
    ELSE IF sub = "remove" THEN Reply(SetAwaiting(s, user, "remove"), "prompt_admin_id")
    ELSE Reply(s, "invalid_option")

\* the handler's return value: whether the text was consumed
maybe_capture_admin_id_text(s, user, text) ==
    LET action == s.user_data[user].awaiting_admin_action IN
    IF action = None THEN s
    ELSE IF ~isdigit(strip(text)) THEN Reply(s, "digits_only")
    ELSE IF ~IsInt(strip(text)) THEN Raised(s)
    ELSE LET chat_id == int(strip(text)) IN
         IF action = "add"
         THEN SetAwaiting(Reply(add_admin_id(s, chat_id), "admin_added"), user, None)
         ELSE IF remove_admin_id_found(s, chat_id)
         THEN SetAwaiting(Reply(remove_admin_id(s, chat_id), "admin_removed"), user, None)
         ELSE SetAwaiting(Reply(s, "admin_not_found"), user, None)

-----------------------------------------------------------------------------
(* Inline buttons.  A token is the sequence of its ":"-separated parts.    *)

\* what remains of a token with three or more parts after split(":", 1):
\* a text with a ":" in it, which is no keyword and no integer literal
Joined == "\\a:b"

\* data.split(":", 1)[1]
SplitOnce(data) == IF Len(data) = 2 THEN data[2] ELSE Joined

\* faulty variant, for comparison: the duration total is left as it was
button_renew_row_expiry_only(row, days_to_add) ==
    [row EXCEPT !.expires_at = @ + days_to_add]

\* the button's copy of the renewal update
button_renew_row(row, days_to_add) ==
    [row EXCEPT !.expires_at = @ + days_to_add, !.duration_days = @ + days_to_add]

on_button_product(s, data) ==
    IF Len(data) >= 2 /\ data[1] \in {"renew", "finish"} /\ isdigit(SplitOnce(data))
    THEN IF ~IsInt(SplitOnce(data)) THEN Raised(s) ELSE
         LET pid == int(SplitOnce(data)) IN
         IF data[1] = "renew"
         THEN IF ~HasRow(s, pid) THEN Reply(s, "not_found")
              ELSE Reply([s EXCEPT !.products[pid] =
                              button_renew_row(@, get_default_days(s))], "renewed")
         ELSE Reply(finish_update(s, pid), "closed")
    ELSE Reply(s, "unsupported")

on_button_backup_on(s, hours_text) ==
    IF ~IsInt(hours_text) THEN Reply(s, "invalid")
    ELSE Reply(reschedule_backup_job(
                   set_setting(set_setting(s, "backup_enabled", "1"),
                               "backup_interval_hours", int(hours_text))),
               "backup_on")

on_button_backup_off(s) ==
    Reply(reschedule_backup_job(set_setting(s, "backup_enabled", "0")), "backup_off")

on_button_setdays(s, n) ==
    IF IsInt(n) THEN Reply(set_default_days(s, int(n)), "default_set")
    ELSE Reply(s, "setdays_error")

\* on_button after `await query.answer()`: the chain of tests on the token
on_button_dispatch(s, user, chat, data) ==
    IF data = <<"menu", "home">> THEN Reply(s, "menu_home")
    ELSE IF data = <<"menu", "list">> THEN list_active(s, user, chat)
    ELSE IF data = <<"menu", "expired">> THEN list_expired(s, user, chat)
    ELSE IF data = <<"menu", "admins">> THEN Reply(s, "menu_admins")
    ELSE IF data = <<"menu", "backup">> THEN Reply(s, "menu_backup")
    ELSE IF Len(data) >= 2 /\ data[1] = "admins"
    THEN handle_admins_menu(s, user, SplitOnce(data))
    ELSE IF Len(data) >= 2 /\ data[1] = "setdays"
    THEN on_button_setdays(s, SplitOnce(data))
    ELSE IF Len(data) >= 2 /\ data[1] = "backup" /\ data[2] = "now"
    THEN Reply(send_backup_to_admins(s), "backup_sent")
    ELSE IF Len(data) = 3 /\ data[1] = "backup" /\ data[2] = "on"
    THEN on_button_backup_on(s, data[3])
    ELSE IF Len(data) >= 2 /\ data[1] = "backup" /\ data[2] = "off"
    THEN on_button_backup_off(s)
    ELSE on_button_product(s, data)

\* on_button up to `await query.answer()`: the guard
on_button_guard(s, user, chat) ==
    IF ~is_admin(s, user, chat) THEN Denied(s) ELSE Allowed(s)

\* the handler when nothing else runs while it awaits
on_button(s0, user, chat, data) ==
    LET s == on_button_guard(s0, user, chat) IN
    IF s.auth = "no" THEN s ELSE on_button_dispatch(s, user, chat, data)

-----------------------------------------------------------------------------
(* Application: the first handler of group 0 that accepts the update runs  *)

dispatch_command(s, user, chat, cmd, args) ==
    CASE cmd = "start"          -> Ran(start(s, user, chat), "start")
      [] cmd = "list"           -> Ran(list_active(s, user, chat), "list_active")
      [] cmd = "expired"        -> Ran(list_expired(s, user, chat), "list_expired")
      [] cmd = "renew"          -> Ran(renew(s, user, chat, args), "renew")
      [] cmd = "finish"         -> Ran(finish(s, user, chat, args), "finish")
      [] cmd = "setdefaultdays" -> Ran(set_default(s, user, chat, args), "set_default")
      [] cmd = "add" /\ s.conv[<<user, chat>>] = END
                                -> Ran(add_start(s, user, chat), "add_start")
      [] cmd = "cancel" /\ s.conv[<<user, chat>>] # END
                                -> Ran(add_cancel(s, user, chat), "add_cancel")
      [] OTHER                  -> s

dispatch_text(s, user, chat, text) ==
    CASE s.conv[<<user, chat>>] = ASK_DESC
             -> Ran(add_got_desc(s, user, chat, text), "add_got_desc")
      [] s.conv[<<user, chat>>] = ASK_DATE
             -> Ran(add_got_date(s, user, chat, text), "add_got_date")
      [] OTHER
             -> Ran(maybe_capture_admin_id_text(s, user, text),
                    "maybe_capture_admin_id_text")

dispatch_callback(s, user, chat, data) ==
    IF data = <<"menu", "add">> /\ s.conv[<<user, chat>>] = END
    THEN Ran(add_start(s, user, chat), "add_start")
    ELSE Ran(on_button(s, user, chat, data), "on_button")

-----------------------------------------------------------------------------
(* Startup                                                                 *)

DefaultSettings ==
    [default_duration_days |-> DEFAULT_DURATION_DAYS,
     backup_enabled |-> "0",
     backup_interval_hours |-> DEFAULT_BACKUP_INTERVAL_HOURS]

RECURSIVE seed_admins(_, _)
\* INSERT OR IGNORE of every id of ADMIN_CHAT_ID, in order
seed_admins(s, ids) ==
    IF ids = <<>> THEN s ELSE seed_admins(add_admin_id(s, Head(ids)), Tail(ids))

seed_admins_from_env(s) == seed_admins(s, s.env.ADMIN_CHAT_ID)

\* the tables exist after the first boot, so only the seeding acts again
init_db(s) == seed_admins_from_env(s)

DailyJob == [name |-> "daily_summary", interval |-> 24 * SECONDS_PER_HOUR, first |-> 0]

NoUserData == [new_desc |-> None, awaiting_admin_action |-> None]

\* faulty variant, for comparison: the backup schedule is not restored
build_app_without_restore(s) ==
    [init_db(s) EXCEPT
        !.conv = [k \in Users \X ChatKinds |-> END],
        !.user_data = [u \in Users |-> NoUserData],
        !.jobs = IF s.env.job_queue THEN <<DailyJob>> ELSE <<>>]

\* a fresh process over the database s holds: nothing in memory survives
build_app(s) ==
    LET booted == [init_db(s) EXCEPT
                      !.conv = [k \in Users \X ChatKinds |-> END],
                      !.user_data = [u \in Users |-> NoUserData],
                      !.jobs = IF s.env.job_queue THEN <<DailyJob>> ELSE <<>>]
    IN reschedule_backup_job(booted)

\* the database and memory of a first boot in environment e
FirstBoot(e) ==
    [admins |-> <<>>, products |-> <<>>, settings |-> DefaultSettings,
     jobs |-> <<>>, conv |-> [k \in Users \X ChatKinds |-> END],
     user_data |-> [u \in Users |-> NoUserData], env |-> e,
     now |-> 0,
     handler |-> "none", auth |-> "n/a", reply |-> "none", rows |-> {}]

\* ADMIN_CHAT_ID is unset or lists one operator; the job-queue extra of the
\* library is installed or not
Envs == [ADMIN_CHAT_ID : {<<>>, <<101>>}, job_queue : BOOLEAN]

\* the variables take the state s a handler returned for an update of
\* `user` with text or token `payload`
Install(s, user, payload) ==
    /\ admins' = s.admins
    /\ products' = s.products
    /\ settings' = s.settings
    /\ jobs' = s.jobs
    /\ conv' = s.conv
    /\ user_data' = s.user_data
    /\ env' = s.env
    /\ hist' = [backup_cmd |->
                    IF s.reply = "backup_on" THEN "on"
                    ELSE IF s.reply = "backup_off" THEN "off"
                    ELSE hist.backup_cmd,
                fired_after_off |->
                    \/ hist.fired_after_off
                    \/ (s.handler = "backup_job_callback" /\ hist.backup_cmd = "off"),
                entered |->
                    IF s.handler = "add_got_desc"
                    THEN [hist.entered EXCEPT ![user] = strip(payload[1])]
                    ELSE IF s.handler \in {"add_got_date", "add_cancel"}
                    THEN [hist.entered EXCEPT ![user] = None]
                    ELSE IF s.handler = "build_app"
                    THEN [u \in Users |-> None]
                    ELSE hist.entered,
                cancelled |->
                    IF s.handler = "add_cancel" THEN user_data[user].new_desc
                    ELSE hist.cancelled,
                on_at |->
                    IF s.reply = "backup_on" THEN s.now
                    ELSE IF s.reply = "backup_off" THEN -1
                    ELSE hist.on_at,
                fired_at |->
                    IF s.reply \in {"backup_on", "backup_off"} THEN -1
                    ELSE IF /\ s.handler = "backup_job_callback"
                            /\ hist.on_at # -1
                            /\ hist.fired_at = -1
                    THEN s.now
                    ELSE hist.fired_at]

Init ==
    \E e \in Envs :
        LET s == build_app(FirstBoot(e)) IN
        /\ admins = s.admins
        /\ products = s.products
        /\ settings = s.settings
        /\ jobs = s.jobs
        /\ conv = s.conv
        /\ user_data = s.user_data
        /\ env = s.env
        /\ hist = [backup_cmd |-> "none", fired_after_off |-> FALSE,
                   entered |-> [u \in Users |-> None], cancelled |-> None,
                   on_at |-> -1, fired_at |-> -1]
        /\ now = s.now
        /\ pending = {}
        /\ fanout = <<>>

-----------------------------------------------------------------------------
(* Actions: one inbound update, one timer fire, or a process restart       *)

\* bounds on what the environment sends
InsertRoom == Len(products) < MaxProducts
RenewRoom ==
    \A i \in DOMAIN products :
        products[i].duration_days \in (-MaxTotalDays)..MaxTotalDays

WouldInsert(user, chat, text) ==
    /\ conv[<<user, chat>>] = ASK_DATE
    /\ user_data[user].new_desc \notin {None, ""}
    /\ ~parse_date_raises(strip(text))

CommandEvent(user, chat, cmd, args) ==
    /\ cmd = "renew" => RenewRoom
    /\ Install(dispatch_command(St, user, chat, cmd, args), user, <<cmd>> \o args)
    /\ UNCHANGED <<now, pending, fanout>>

TextEvent(user, chat, text) ==
    /\ WouldInsert(user, chat, text) => InsertRoom
    /\ Install(dispatch_text(St, user, chat, text), user, <<text>>)
    /\ UNCHANGED <<now, pending, fanout>>

CallbackEvent(user, chat, data) ==
    /\ data[1] = "renew" => RenewRoom
    /\ Install(dispatch_callback(St, user, chat, data), user, data)
    /\ UNCHANGED <<now, pending, fanout>>

JobFire(i) ==
    /\ i \in DOMAIN jobs
    /\ Install(IF jobs[i].name = "backup_job"
               THEN Ran(send_backup_to_admins(St), "backup_job_callback")
               ELSE Ran(daily_summary(St), "daily_summary"),
               0, <<>>)
    /\ UNCHANGED <<now, pending, fanout>>

\* the coroutines of the old process die with it
Restart ==
    /\ Install(Ran(build_app(St), "build_app"), 0, <<>>)
    /\ pending' = {}
    /\ fanout' = <<>>
    /\ UNCHANGED now

-----------------------------------------------------------------------------
(* Scheduler specification: backup configuration, timer fires, restarts,   *)
(* and the operator registry that decides who may configure                *)

SchedTokens ==
    {<<"backup", "on", "6">>, <<"backup", "on", "12">>, <<"backup", "on", "0">>,
     <<"backup", "on", "x">>, <<"backup", "on">>, <<"backup", "off">>,
     <<"backup", "now">>, <<"menu", "backup">>,
     <<"admins", "add">>, <<"admins", "remove">>, <<"menu", "admins">>}

SchedTexts == {"101", "102", "x"}

SchedButton ==
    \E u \in Users, c \in ChatKinds, data \in SchedTokens : CallbackEvent(u, c, data)

SchedText ==
    \E u \in Users, c \in ChatKinds, t \in SchedTexts : TextEvent(u, c, t)

SchedFire == \E i \in DOMAIN jobs : JobFire(i)

SchedNext == SchedButton \/ SchedText \/ SchedFire \/ Restart

SpecSched == Init /\ [][SchedNext]_vars

-----------------------------------------------------------------------------
(* Claims about the scheduler                                              *)

BackupOn(s, user, chat, hours_text) ==
    dispatch_callback(s, user, chat, <<"backup", "on", hours_text>>)

\* C1: after any sequence of backup:on:N, backup:off, restarts and fires there
\* are never two live backup timers, and a backup:on:N that completes with the
\* timer facility present leaves exactly one, with the interval of N hours
\* (at least one hour), whatever timer was live before.
C1_AtMostOneBackupTimer ==
    /\ Len(BackupJobs(jobs)) <= 1
    /\ \A u \in Users, c \in ChatKinds, n \in {"0", "6", "12"} :
           LET s == BackupOn(St, u, c, n) IN
           (s.reply = "backup_on" /\ env.job_queue) =>
               /\ Len(BackupJobs(s.jobs)) = 1
               /\ BackupJobs(s.jobs)[1].interval = Max(1, int(n)) * SECONDS_PER_HOUR

\* a 6-hour timer is live and operator 101 can change it to 12 hours
C1_Witness ==
    /\ Len(BackupJobs(jobs)) = 1
    /\ BackupJobs(jobs)[1].interval = 6 * SECONDS_PER_HOUR
    /\ BackupOn(St, 101, "private", "12").reply = "backup_on"

\* C2: from a completed backup:off until the next completed backup:on no
\* backup timer is live and no recurring backup fires.
C2_OffLeavesNoTimer ==
    /\ hist.backup_cmd = "off" => BackupJobs(jobs) = <<>>
    /\ ~hist.fired_after_off

\* backup:off has completed after an earlier backup:on:12, with the timer
\* facility present
C2_Witness ==
    /\ hist.backup_cmd = "off"
    /\ env.job_queue
    /\ settings["backup_interval_hours"] = 12
    /\ settings["backup_enabled"] = "0"

-----------------------------------------------------------------------------
(* Claims about authorization                                              *)

Effects(s) == <<s.admins, s.products, s.settings, s.jobs, s.conv, s.user_data>>

\* the outcome of the authorization check at each guarded entry point
GuardOutcomes(s, u, c) ==
    {start(s, u, c).auth, add_start(s, u, c).auth, list_active(s, u, c).auth,
     list_expired(s, u, c).auth, renew(s, u, c, <<>>).auth,
     finish(s, u, c, <<>>).auth, set_default(s, u, c, <<>>).auth,
     on_button(s, u, c, <<"menu", "home">>).auth}

\* C3: whatever the registry has become, a requester is authorized exactly
\* when the registry is empty and the chat is private, or the registry is
\* non-empty and lists the requester (whatever the chat).
C3_AuthorizationPolicy ==
    \A u \in Users, c \in ChatKinds :
        GuardOutcomes(St, u, c) =
            {IF admins = <<>>
             THEN (IF c = "private" THEN "yes" ELSE "no")
             ELSE (IF \E i \in DOMAIN admins : admins[i] = u THEN "yes" ELSE "no")}

\* an operator was added at run time and is authorized in a group chat, the
\* other requester is refused in a private chat
C3_Witness ==
    /\ admins = <<101>>
    /\ env.ADMIN_CHAT_ID = <<>>
    /\ GuardOutcomes(St, 101, "group") = {"yes"}
    /\ GuardOutcomes(St, 102, "private") = {"no"}

\* C4: an event from a requester who is not authorized when it is handled
\* changes nothing.
C4_UnauthorizedChangesNothing ==
    \A u \in Users, c \in ChatKinds :
        ~is_admin(St, u, c) =>
            /\ \A t \in SchedTexts :
                   Effects(dispatch_text(St, u, c, t)) = Effects(St)
            /\ \A d \in SchedTokens :
                   Effects(dispatch_callback(St, u, c, d)) = Effects(St)

-----------------------------------------------------------------------------
(* Flow specification: the add flow and the default duration              *)

FlowCommands ==
    {<<"add">>, <<"cancel">>, <<"setdefaultdays", "10">>}

FlowTexts == {" ", "VPN", " Web ", "2025-01-01"}

FlowTokens == {<<"menu", "add">>, <<"menu", "home">>}

FlowCommand ==
    \E u \in Users, c \in ChatKinds, m \in FlowCommands :
        CommandEvent(u, c, Head(m), Tail(m))

FlowText ==
    \E u \in Users, c \in ChatKinds, t \in FlowTexts : TextEvent(u, c, t)

FlowButton ==
    \E u \in Users, c \in ChatKinds, data \in FlowTokens : CallbackEvent(u, c, data)

FlowNext == FlowCommand \/ FlowText \/ FlowButton \/ Restart

SpecFlow == Init /\ [][FlowNext]_vars

-----------------------------------------------------------------------------
(* Claims about the add flow                                               *)

InFlow(u, c, state) == conv[<<u, c>>] = state
HasPendingDesc(u) == user_data[u].new_desc \notin {None, ""}

\* C5: a parseable date sent in ASK_DATE with a non-empty pending description
\* inserts exactly one row: that description, active, the current default
\* duration, expiry = purchase instant + that duration; the pending
\* description is cleared and the conversation ends.
C5_DateCommitsRecord ==
    \A u \in Users, c \in ChatKinds, t \in FlowTexts :
        (InFlow(u, c, ASK_DATE) /\ HasPendingDesc(u) /\ strip(t) \in DOMAIN DateTable) =>
            LET s == dispatch_text(St, u, c, t)
                purchase == DateTable[strip(t)]
                days == settings["default_duration_days"]
            IN /\ s.products =
                      Append(products,
                             [description |-> user_data[u].new_desc,
                              purchase_date |-> purchase,
                              duration_days |-> days,
                              expires_at |-> purchase + days,
                              is_active |-> 1])
               /\ s.user_data[u].new_desc = None
               /\ s.conv[<<u, c>>] = END
               /\ s.reply = "saved"

\* a row created after the default duration was changed to 10 days
C5_Witness ==
    \E i \in DOMAIN products :
        /\ products[i].description = "Web"
        /\ products[i].duration_days = 10
        /\ products[i].expires_at = 10
        /\ products[i].is_active = 1

\* C6: an unparseable date in ASK_DATE reports an error, inserts nothing and
\* keeps the conversation in ASK_DATE with the pending description.
C6_BadDateKeepsFlow ==
    \A u \in Users, c \in ChatKinds, t \in FlowTexts :
        (InFlow(u, c, ASK_DATE) /\ HasPendingDesc(u) /\ strip(t) \notin DOMAIN DateTable) =>
            LET s == dispatch_text(St, u, c, t) IN
            /\ s.reply = "error"
            /\ s.products = products
            /\ s.conv[<<u, c>>] = ASK_DATE
            /\ s.user_data[u].new_desc = user_data[u].new_desc

\* C7: a description that is empty after trimming keeps the conversation in
\* ASK_DESC, and no row has an empty description.
C7_EmptyDescReprompts ==
    /\ \A u \in Users, c \in ChatKinds, t \in FlowTexts :
           (InFlow(u, c, ASK_DESC) /\ strip(t) = "") =>
               dispatch_text(St, u, c, t).conv[<<u, c>>] = ASK_DESC
    /\ \A i \in DOMAIN products : products[i].description # ""

\* C8: /cancel in ASK_DESC or ASK_DATE discards the pending description, ends
\* the conversation and inserts nothing; a row is only ever created from the
\* description its requester entered last, which no cancellation discarded.
C8_CancelDiscards ==
    \A u \in Users, c \in ChatKinds :
        /\ ~InFlow(u, c, END) =>
               LET s == dispatch_command(St, u, c, "cancel", <<>>) IN
               /\ s.conv[<<u, c>>] = END
               /\ s.user_data[u].new_desc = None
               /\ s.products = products
               /\ s.reply = "cancelled"
        /\ \A t \in FlowTexts :
               LET s == dispatch_text(St, u, c, t) IN
               Len(s.products) > Len(products) =>
                   /\ hist.entered[u] # None
                   /\ s.products[Len(s.products)].description = hist.entered[u]

\* "VPN" was cancelled and the only row carries the description entered next
C8_Witness ==
    /\ hist.cancelled = "VPN"
    /\ Len(products) = 1
    /\ products[1].description = "Web"

-----------------------------------------------------------------------------
(* Record-store specification: insert, renew and finish by command and by  *)
(* button, and changes of the default duration, sent in private chats      *)

StoreCommands ==
    {<<"add">>, <<"renew", "1">>, <<"renew", "1", "10">>, <<"renew", "1", "-40">>,
     <<"renew", "x">>, <<"renew">>,
     <<"finish", "1">>, <<"setdefaultdays", "0">>}

StoreTexts == {"VPN", "2025-01-01"}

StoreTokens ==
    {<<"renew", "1">>, <<"renew", "2">>, <<"finish", "2">>, <<"setdays", "60">>}

StoreCommand ==
    \E u \in Users, m \in StoreCommands :
        CommandEvent(u, "private", Head(m), Tail(m))

StoreText ==
    \E u \in Users, t \in StoreTexts :
        /\ WouldInsert(u, "private", t) => Len(products) < MaxStoreProducts
        /\ TextEvent(u, "private", t)

StoreButton ==
    \E u \in Users, data \in StoreTokens : CallbackEvent(u, "private", data)

StoreNext == StoreCommand \/ StoreText \/ StoreButton

SpecStore == Init /\ [][StoreNext]_vars

-----------------------------------------------------------------------------
(* Claims about the record store                                           *)

\* C9: in every reachable state every row's expires_at is its purchase
\* instant plus its duration_days, whatever inserts, command and button
\* renewals, finishes and default-duration changes came before.
C9_ExpiryIsPurchasePlusDuration ==
    \A i \in DOMAIN products :
        products[i].expires_at = products[i].purchase_date + products[i].duration_days

\* a finished row that was created with 30 days, renewed by 10 by command and
\* by 60 by button after the default was changed
C9_Witness ==
    \E i \in DOMAIN products :
        /\ products[i].duration_days = 100
        /\ products[i].expires_at = products[i].purchase_date + 100
        /\ products[i].is_active = 0
        /\ settings["default_duration_days"] = 60

\* decimal literal of a row id
IdText(pid) == <<"1", "2", "3">>[pid]

\* <<d1, d2, d>> with d1 + d2 = d
DeltaTriples ==
    {<<"1", "2", "3">>, <<"2", "-1", "1">>, <<"-1", "1", "0">>, <<"6", "6", "12">>}

\* C10: for every row and every authorized requester, /renew by d1 and then
\* by d2 leaves the table as one /renew by d1 + d2 does; one /renew by d moves
\* expires_at and duration_days by exactly d from their prior values; and the
\* renew button does what /renew without a day count does.
C10_RenewalsAdditive ==
    \A u \in Users, pid \in DOMAIN products :
        is_admin(St, u, "private") =>
            /\ \A tr \in DeltaTriples :
                   renew(renew(St, u, "private", <<IdText(pid), tr[1]>>),
                         u, "private", <<IdText(pid), tr[2]>>).products
                     = renew(St, u, "private", <<IdText(pid), tr[3]>>).products
            /\ \A d \in {"-40", "-1", "10"} :
                   LET s == renew(St, u, "private", <<IdText(pid), d>>) IN
                   /\ s.reply = "renewed"
                   /\ s.products[pid].expires_at = products[pid].expires_at + int(d)
                   /\ s.products[pid].duration_days = products[pid].duration_days + int(d)
                   /\ \A j \in DOMAIN products : j # pid => s.products[j] = products[j]
            /\ on_button(St, u, "private", <<"renew", IdText(pid)>>).products
                 = renew(St, u, "private", <<IdText(pid)>>).products

\* a row renewed twice by 10 days by command
C10_Witness ==
    \E i \in DOMAIN products :
        /\ products[i].duration_days = 50
        /\ products[i].expires_at = products[i].purchase_date + 50
        /\ is_admin(St, 101, "private")

-----------------------------------------------------------------------------
(* Handlers that overlap.  The Application is built without                *)
(* concurrent_updates, so it takes the next update when the handler of the *)
(* last one has returned; the model is more liberal and lets the handlers  *)
(* of different requesters overlap at their awaits.  renew awaits nothing  *)
(* between its guard and its UPDATE; on_button awaits query.answer()       *)
(* between its guard and everything else.                                  *)

\* the row a renew token names, as it is when the handler is entered
\* (history; the handler itself reads the row after the await)
RowAtEntry(s, data) ==
    IF /\ Len(data) = 2
       /\ IsInt(data[2])
       /\ HasRow(s, int(data[2]))
    THEN [seen |-> TRUE, expires_at |-> s.products[int(data[2])].expires_at]
    ELSE [seen |-> FALSE, expires_at |-> 0]

\* the coroutine of on_button, suspended at `await query.answer()`
Suspended(s, user, chat, data) ==
    [user |-> user, chat |-> chat, data |-> data, at_entry |-> RowAtEntry(s, data)]

\* faulty variant, for comparison: the renewal starts from the expiry the row
\* had when the handler was entered
on_button_resume_stale(s, t) ==
    IF t.data[1] = "renew" /\ t.at_entry.seen
    THEN LET pid == int(t.data[2])
             days_to_add == get_default_days(s)
         IN Reply([Allowed(s) EXCEPT
                      !.products[pid].expires_at = t.at_entry.expires_at + days_to_add,
                      !.products[pid].duration_days = @ + days_to_add],
                  "renewed")
    ELSE on_button_dispatch(Allowed(s), t.user, t.chat, t.data)

\* the coroutine goes on after the await, in the state of that moment
on_button_resume(s, t) == on_button_dispatch(Allowed(s), t.user, t.chat, t.data)

\* a button press is taken up to the await; a requester's next update waits
\* for the handler of the last one
ButtonBegin(user, chat, data) ==
    LET s == on_button_guard(St, user, chat) IN
    /\ \A t \in pending : t.user # user
    /\ Install(Ran(s, "on_button"), user, data)
    /\ pending' = IF s.auth = "yes"
                  THEN pending \cup {Suspended(St, user, chat, data)}
                  ELSE pending
    /\ UNCHANGED <<now, fanout>>

ButtonResume(t) ==
    /\ t \in pending
    /\ t.data[1] = "renew" => RenewRoom
    /\ Install(Ran(on_button_resume(St, t), "on_button"), t.user, t.data)
    /\ pending' = pending \ {t}
    /\ UNCHANGED <<now, fanout>>

-----------------------------------------------------------------------------
(* Race specification: /renew commands and renew buttons of two requesters *)
(* on the one row that operator 101 creates                                *)

RaceCommands == {<<"renew", "1", "10">>, <<"finish", "1">>}

RaceTexts == {"VPN", "2025-01-01"}

RaceTokens == {<<"renew", "1">>}

RaceAdd == CommandEvent(101, "private", "add", <<>>)

RaceCommand ==
    \E u \in Users, m \in RaceCommands :
        /\ \A t \in pending : t.user # u
        /\ CommandEvent(u, "private", Head(m), Tail(m))

RaceText ==
    \E t \in RaceTexts :
        /\ \A p \in pending : p.user # 101
        /\ WouldInsert(101, "private", t) => Len(products) < MaxStoreProducts
        /\ TextEvent(101, "private", t)

RaceBegin == \E u \in Users, data \in RaceTokens : ButtonBegin(u, "private", data)

RaceResume == \E t \in pending : ButtonResume(t)

RaceNext == RaceAdd \/ RaceCommand \/ RaceText \/ RaceBegin \/ RaceResume

SpecRace == Init /\ [][RaceNext]_vars

-----------------------------------------------------------------------------
(* Claims about overlapping renewals                                       *)

\* C11: renewals of one row that overlap lose nothing.  With a renew button
\* of the row suspended at its await, a /renew by 10 days that runs before
\* the button goes on, or after it, or a second suspended renew button,
\* leaves expires_at and duration_days at their values before the two plus
\* both increments; and in every state reached by such overlaps expires_at
\* is still the purchase instant plus duration_days.
C11_ConcurrentRenewalsBothApplied ==
    /\ \A i \in DOMAIN products :
           products[i].expires_at = products[i].purchase_date + products[i].duration_days
    /\ \A t \in pending :
           (t.data = <<"renew", "1">> /\ HasRow(St, 1)) =>
               LET days == settings["default_duration_days"]
                   both(p) == /\ p[1].expires_at = products[1].expires_at + 10 + days
                              /\ p[1].duration_days = products[1].duration_days + 10 + days
               IN /\ \A u \in Users :
                         is_admin(St, u, "private") =>
                             /\ both(on_button_resume(
                                        renew(St, u, "private", <<"1", "10">>), t).products)
                             /\ both(renew(on_button_resume(St, t),
                                           u, "private", <<"1", "10">>).products)
                  /\ \A t2 \in pending \ {t} :
                         t2.data = <<"renew", "1">> =>
                             LET p == on_button_resume(on_button_resume(St, t), t2).products
                             IN /\ p[1].expires_at = products[1].expires_at + 2 * days
                                /\ p[1].duration_days = products[1].duration_days + 2 * days

\* two renew buttons of row 1 are suspended, and a renewal of the row was
\* committed while one of them was
C11_Witness ==
    /\ Cardinality(pending) = 2
    /\ \A t \in pending : t.data = <<"renew", "1">> /\ t.at_entry.seen
    /\ \E t \in pending : t.at_entry.expires_at # products[1].expires_at

-----------------------------------------------------------------------------
(* Claims about finishing                                                  *)

\* C12: finishing a row that is already finished, by command or by button,
\* replies as a first finish does (no error), leaves the row inactive and
\* changes no field of any row; and finishing any row twice leaves the table
\* as finishing it once does.
C12_FinishIdempotent ==
    \A u \in Users, pid \in DOMAIN products :
        is_admin(St, u, "private") =>
            LET once == finish(St, u, "private", <<IdText(pid)>>)
                twice == finish(once, u, "private", <<IdText(pid)>>)
                pressed == on_button(once, u, "private", <<"finish", IdText(pid)>>)
            IN /\ once.products[pid].is_active = 0
               /\ twice.reply = "closed" /\ twice.products = once.products
               /\ pressed.reply = "closed" /\ pressed.products = once.products
               /\ products[pid].is_active = 0 =>
                      /\ once.reply = "closed"
                      /\ once.products = products

\* a finished row, which its operator can finish again
C12_Witness ==
    \E i \in DOMAIN products :
        /\ products[i].is_active = 0
        /\ finish(St, 101, "private", <<IdText(i)>>).reply = "closed"
        /\ finish(St, 101, "private", <<IdText(i)>>).products = products

\* C13: no step removes a row or changes what identifies it (its id, its
\* description, its purchase date), and no step makes a finished row active
\* again, renewals of that row by command or by button included.
C13_FinishIsTerminal ==
    [][\A i \in DOMAIN products :
           /\ i \in DOMAIN products'
           /\ products'[i].description = products[i].description
           /\ products'[i].purchase_date = products[i].purchase_date
           /\ products[i].is_active = 0 => products'[i].is_active = 0]_vars

\* a finished row that both renewals still accept
C13_Witness ==
    \E i \in DOMAIN products :
        /\ products[i].is_active = 0
        /\ renew(St, 101, "private", <<IdText(i), "10">>).reply = "renewed"
        /\ on_button(St, 101, "private", <<"renew", IdText(i)>>).reply = "renewed"
        /\ products[i].duration_days > DEFAULT_DURATION_DAYS

\* C15: renew and finish of an id that no row has, by command and by button,
\* reply "not found" and change no row.
C15_UnknownIdIsNotFound ==
    \A u \in Users, id \in {"1", "2", "3"} :
        (is_admin(St, u, "private") /\ ~HasRow(St, int(id))) =>
            /\ \A s \in {renew(St, u, "private", <<id>>),
                         renew(St, u, "private", <<id, "10">>),
                         on_button(St, u, "private", <<"renew", id>>),
                         finish(St, u, "private", <<id>>),
                         on_button(St, u, "private", <<"finish", id>>)} :
                   /\ s.reply = "not_found"
                   /\ s.products = products

-----------------------------------------------------------------------------
(* Listing specification: operator 101 creates rows with two purchase      *)
(* dates, renews row 1 into the past, renews row 2, finishes rows and      *)
(* lists the expired ones while the clock advances                         *)

\* clock readings: at midnight of these days, or a minute later
ClockDays == {3, 30, 43}

Tick ==
    /\ \E d \in ClockDays, m \in {0, 1} :
           /\ Midnight(d) + m > now
           /\ now' = Midnight(d) + m
    /\ UNCHANGED <<admins, products, settings, jobs, conv, user_data, env, hist,
                   pending, fanout>>

ListCommands == {<<"add">>, <<"expired">>, <<"renew", "1", "-40">>}

ListTexts == {"VPN", "2025-01-01", "14/01/2025"}

ListTokens ==
    {<<"renew", "2">>, <<"finish", "1">>, <<"finish", "2">>, <<"menu", "expired">>}

ListCommand ==
    \E m \in ListCommands : CommandEvent(101, "private", Head(m), Tail(m))

ListText == \E t \in ListTexts : TextEvent(101, "private", t)

ListButton == \E data \in ListTokens : CallbackEvent(101, "private", data)

ListNext == ListCommand \/ ListText \/ ListButton \/ Tick

\* the process starts with the timer facility and operator 101 seeded
ListInit == Init /\ env = [ADMIN_CHAT_ID |-> <<101>>, job_queue |-> TRUE]

SpecList == ListInit /\ [][ListNext]_vars

-----------------------------------------------------------------------------
(* Claims about the listing of expired rows                                *)

ExpiredNow(s) ==
    {i \in DOMAIN s.products :
        s.products[i].is_active = 1 /\ Midnight(s.products[i].expires_at) <= s.now}

\* a listing q shows exactly the rows E, each once, by ascending expiry
ListsExactly(s, q, E) ==
    /\ Range(q) = E
    /\ Len(q) = Cardinality(E)
    /\ \A j, k \in DOMAIN q :
           j < k => s.products[q[j]].expires_at <= s.products[q[k]].expires_at

\* C14: whatever mixture of active and finished, past and future rows the
\* table holds (fewer rows than the limit), every listing /expired or the
\* menu button may produce shows exactly the active rows with expires_at <=
\* now, each once, in ascending order of expires_at; and a row that is
\* finished, or renewed to an expiry after now, is in no listing produced
\* afterwards.
C14_ListExpiredExact ==
    LET listed == list_expired(St, 101, "private")
        button == on_button(St, 101, "private", <<"menu", "expired">>)
    IN /\ listed.auth = "yes"
       /\ button.rows = listed.rows
       /\ IF ExpiredNow(St) = {}
          THEN listed.reply = "none_expired" /\ listed.rows = {}
          ELSE /\ listed.reply = "expired"
               /\ listed.rows # {}
               /\ \A q \in listed.rows : ListsExactly(St, q, ExpiredNow(St))
       /\ \A pid \in ExpiredNow(St) :
              /\ \A q \in list_expired(finish(St, 101, "private", <<IdText(pid)>>),
                                       101, "private").rows :
                     pid \notin Range(q)
              /\ LET s == on_button(St, 101, "private", <<"renew", IdText(pid)>>) IN
                 Midnight(s.products[pid].expires_at) > now =>
                     \A q \in list_expired(s, 101, "private").rows : pid \notin Range(q)

\* row 1 is active and past, row 2 is finished and past, and a renewal of
\* row 1 by the default duration takes it out of the listing
C14_Witness ==
    /\ Len(products) = 2
    /\ ExpiredNow(St) = {1}
    /\ products[2].is_active = 0 /\ Midnight(products[2].expires_at) <= now
    /\ products[1].expires_at < products[2].expires_at
    /\ Midnight(on_button(St, 101, "private", <<"renew", "1">>).products[1].expires_at)
           > now

-----------------------------------------------------------------------------
(* Claims about malformed arguments                                        *)

ErrorReplies == {"invalid", "unsupported", "setdays_error"}

\* texts that are no integer literal
NonIntegers == {"x", SuperscriptTwo}

\* C16: a command or a button token whose numeric argument is no integer
\* gets an error reply and leaves the tables, the settings, the timers and
\* the flows as they were.
C16_NonIntegerRejected ==
    \A u \in Users, c \in ChatKinds, a \in NonIntegers :
        is_admin(St, u, c) =>
            \A s \in {dispatch_command(St, u, c, "renew", <<a>>),
                      dispatch_command(St, u, c, "renew", <<"1", a>>),
                      dispatch_command(St, u, c, "finish", <<a>>),
                      dispatch_command(St, u, c, "setdefaultdays", <<a>>),
                      dispatch_callback(St, u, c, <<"renew", a>>),
                      dispatch_callback(St, u, c, <<"finish", a>>),
                      dispatch_callback(St, u, c, <<"setdays", a>>),
                      dispatch_callback(St, u, c, <<"backup", "on", a>>)} :
                /\ s.reply \in ErrorReplies
                /\ Effects(s) = Effects(St)

-----------------------------------------------------------------------------
(* Claims about the operator registry flow                                 *)

Awaiting(u) == user_data[u].awaiting_admin_action

NoDuplicates(q) == \A j, k \in DOMAIN q : q[j] = q[k] => j = k

\* C18: with an add or remove pending and no add flow open in the chat, a
\* text that is no non-negative integer literal is answered with the prompt
\* for digits and changes neither the registry nor the pending action; a
\* literal n performs the pending action on n (add: n is listed afterwards,
\* once, and the others stay; remove: n is not listed afterwards, with "not
\* found" when it was not listed) and clears the pending action.
C18_OperatorIdCapture ==
    \A u \in Users, c \in ChatKinds :
        (Awaiting(u) # None /\ conv[<<u, c>>] = END) =>
            /\ \A t \in {"x", "-1", " ", SuperscriptTwo} :
                   LET s == dispatch_text(St, u, c, t) IN
                   /\ s.reply = "digits_only"
                   /\ s.admins = admins
                   /\ s.user_data[u].awaiting_admin_action = Awaiting(u)
            /\ \A t \in {"101", "102", "103"} :
                   LET s == dispatch_text(St, u, c, t)
                       n == int(t)
                   IN /\ s.user_data[u].awaiting_admin_action = None
                      /\ NoDuplicates(s.admins)
                      /\ Range(s.admins) =
                             IF Awaiting(u) = "add" THEN Range(admins) \cup {n}
                             ELSE Range(admins) \ {n}
                      /\ s.reply = IF Awaiting(u) = "add" THEN "admin_added"
                                   ELSE IF n \in Range(admins) THEN "admin_removed"
                                   ELSE "admin_not_found"

\* what a requester does to leave the operator flow: the Back button, the
\* home menu, or a whole add flow
Abandonments(s, u, c) ==
    {dispatch_callback(s, u, c, <<"menu", "admins">>),
     dispatch_callback(s, u, c, <<"menu", "home">>),
     dispatch_text(
         dispatch_text(dispatch_command(s, u, c, "add", <<>>), u, c, "VPN"),
         u, c, "2025-01-01")}

\* C19: once a requester with an add or remove pending has left that flow,
\* nothing is pending and a number the requester sends changes no registry
\* entry.
C19_AbandonClearsMarker ==
    \A u \in Users, c \in ChatKinds :
        (Awaiting(u) # None /\ conv[<<u, c>>] = END /\ is_admin(St, u, c)) =>
            \A s \in Abandonments(St, u, c) :
                /\ s.user_data[u].awaiting_admin_action = None
                /\ \A t \in {"101", "102", "103"} :
                       dispatch_text(s, u, c, t).admins = s.admins

\* C20: when the registry lists someone, then after the next registry action
\* (a removal of the last entry included) only listed requesters are
\* authorized, in whatever chat.
C20_BootstrapNeverAgain ==
    admins # <<>> =>
        \A u \in Users, c \in ChatKinds, t \in SchedTexts :
            LET s == dispatch_text(St, u, c, t) IN
            \A v \in Users, c2 \in ChatKinds :
                is_admin(s, v, c2) => v \in Range(s.admins)

-----------------------------------------------------------------------------
(* Fan-out: the delivery loops of daily_summary and send_backup_to_admins, *)
(* one step per await.  The handlers' effect on the database (none) is     *)
(* daily_summary / send_backup_to_admins above.                            *)

\* admin_ids = get_admin_ids(), read once; if not admin_ids: return.
\* sends is what goes out: the digest text, the archive, or the oversize note
fanout_start(s, duty, sends) ==
    [duty |-> duty, sends |-> sends,
     recipients |-> get_admin_ids(s), attempts |-> <<>>, raised |-> FALSE,
     pc |-> IF get_admin_ids(s) = <<>> THEN "returned" ELSE "loop"]

\* faulty variant, for comparison: a failed delivery ends the loop and reaches
\* the caller
fanout_deliver_abort(f, ok) ==
    LET aid == f.recipients[Len(f.attempts) + 1]
        g == [f EXCEPT !.attempts = Append(@, [to |-> aid, ok |-> ok])]
    IN IF ~ok THEN [g EXCEPT !.raised = TRUE, !.pc = "returned"]
       ELSE IF Len(g.attempts) = Len(g.recipients) THEN [g EXCEPT !.pc = "returned"]
       ELSE g

\* one iteration of `for aid in admin_ids: try: await send except Exception:
\* pass`; ok is whether the delivery succeeded
fanout_deliver(f, ok) ==
    LET aid == f.recipients[Len(f.attempts) + 1]
        g == [f EXCEPT !.attempts = Append(@, [to |-> aid, ok |-> ok])]
    IN IF Len(g.attempts) = Len(g.recipients) THEN [g EXCEPT !.pc = "returned"] ELSE g

\* no delivery loop is running (one loop at a time in the model)
FanoutIdle == \A k \in DOMAIN fanout : fanout[k].loop.pc = "returned"

\* the loop record with the registry of the moment beside it (history)
Started(f) == <<[loop |-> f, at_start |-> admins]>>

\* a timer fires: the daily digest or the recurring backup (whose archive
\* is within MAX_BACKUP_MB or not)
FanoutFire(i, oversize) ==
    /\ i \in DOMAIN jobs
    /\ FanoutIdle
    /\ IF jobs[i].name = "backup_job"
       THEN /\ Install(Ran(send_backup_to_admins(St), "backup_job_callback"), 0, <<>>)
            /\ fanout' = Started(fanout_start(St, "backup_job",
                                              IF oversize THEN "note" ELSE "archive"))
       ELSE /\ Install(Ran(daily_summary(St), "daily_summary"), 0, <<>>)
            /\ ~oversize
            /\ fanout' = Started(fanout_start(St, "daily_summary", "digest"))
    /\ UNCHANGED <<now, pending>>

\* the backup:now button of an authorized requester
FanoutNow(user, chat, oversize) ==
    /\ FanoutIdle
    /\ on_button_guard(St, user, chat).auth = "yes"
    /\ Install(Ran(on_button_guard(St, user, chat), "on_button"),
               user, <<"backup", "now">>)
    /\ fanout' = Started(fanout_start(St, "backup_now",
                                      IF oversize THEN "note" ELSE "archive"))
    /\ UNCHANGED <<now, pending>>

FanoutDeliver(ok) ==
    /\ ~FanoutIdle
    /\ fanout' = <<[fanout[1] EXCEPT !.loop = fanout_deliver(@, ok)]>>
    /\ UNCHANGED <<admins, products, settings, jobs, conv, user_data, env, hist,
                   now, pending>>

-----------------------------------------------------------------------------
(* Fan-out specification: operator 101 changes the registry and the backup *)
(* schedule while timers fire and deliveries succeed or fail               *)

FanoutTokens ==
    {<<"admins", "add">>, <<"admins", "remove">>, <<"backup", "on", "6">>}

FanoutTexts == {"101", "102"}

FanoutButton == \E data \in FanoutTokens : CallbackEvent(101, "private", data)

FanoutText == \E t \in FanoutTexts : TextEvent(101, "private", t)

FanoutTimer == \E i \in DOMAIN jobs, oversize \in BOOLEAN : FanoutFire(i, oversize)

FanoutManual == \E oversize \in BOOLEAN : FanoutNow(101, "private", oversize)

FanoutStep == \E ok \in BOOLEAN : FanoutDeliver(ok)

FanoutNext ==
    FanoutButton \/ FanoutText \/ FanoutTimer \/ FanoutManual \/ FanoutStep

\* the process starts with the timer facility and operator 101 seeded
FanoutInit == Init /\ env = [ADMIN_CHAT_ID |-> <<101>>, job_queue |-> TRUE]

SpecFanout == FanoutInit /\ [][FanoutNext]_vars

-----------------------------------------------------------------------------
(* Claims about the fan-out                                                *)

Recipients(attempts) == [k \in DOMAIN attempts |-> attempts[k].to]

\* C17: a fan-out attempts delivery to the operators registered when it
\* started, each once and in registry order: at every moment the attempts
\* made are a prefix of that registry, whatever failed and however the
\* registry changed meanwhile; the loop goes on while an operator is left
\* and returns only after the last one; no failure reaches the trigger.
C17_FanoutReachesEveryOperator ==
    \A k \in DOMAIN fanout :
        LET f == fanout[k].loop
            registry == fanout[k].at_start
        IN /\ f.recipients = registry
           /\ NoDuplicates(registry)
           /\ Len(f.attempts) <= Len(registry)
           /\ Recipients(f.attempts) = SubSeq(registry, 1, Len(f.attempts))
           /\ f.pc = "returned" <=> Len(f.attempts) = Len(registry)
           /\ ~f.raised

\* a backup fan-out over two operators has returned: the first delivery
\* failed, the second was attempted, and the registry changed meanwhile
C17_Witness ==
    /\ Len(fanout) = 1
    /\ fanout[1].loop.pc = "returned"
    /\ fanout[1].loop.duty = "backup_job"
    /\ Len(fanout[1].loop.attempts) = 2
    /\ ~fanout[1].loop.attempts[1].ok
    /\ fanout[1].at_start # admins

-----------------------------------------------------------------------------
(* Claims about durations                                                  *)

\* C21: every row has duration_days >= 1, whatever default-duration changes
\* by command and by button, inserts and renewals by any integer came before.
C21_DurationPositive ==
    \A i \in DOMAIN products : products[i].duration_days >= 1

-----------------------------------------------------------------------------
(* Claims about startup                                                    *)

\* C22: an operator of ADMIN_CHAT_ID that the registry does not list (it was
\* removed in the remove flow and not added again) is not listed after a
\* restart either.
C22_SeedOnlyAtFirstBoot ==
    \A n \in Range(env.ADMIN_CHAT_ID) :
        n \notin Range(admins) => n \notin Range(build_app(St).admins)

-----------------------------------------------------------------------------
(* Claims about the backup schedule                                        *)

\* C25: after a completed backup:on:N the stored interval is at least one
\* hour, and the live timer, if the timer facility is present, runs at
\* exactly the stored interval.
C25_IntervalAtLeastOneHour ==
    \A u \in Users, c \in ChatKinds, n \in {"-1", "0", "1", "6"} :
        LET s == BackupOn(St, u, c, n) IN
        s.reply = "backup_on" =>
            /\ s.settings["backup_interval_hours"] >= 1
            /\ \A k \in DOMAIN BackupJobs(s.jobs) :
                   /\ BackupJobs(s.jobs)[k].interval >= SECONDS_PER_HOUR
                   /\ BackupJobs(s.jobs)[k].interval =
                          s.settings["backup_interval_hours"] * SECONDS_PER_HOUR

\* C27: with the timer facility there is exactly one daily-digest timer in
\* every state, whatever backup:on:N, backup:off, fires and restarts came
\* before; without it there is no timer at all.
C27_OneDailyDigestTimer ==
    /\ env.job_queue => Len(DailyJobs(jobs)) = 1
    /\ ~env.job_queue => jobs = <<>>
    /\ \A u \in Users, c \in ChatKinds, d \in SchedTokens :
           DailyJobs(dispatch_callback(St, u, c, d).jobs) = DailyJobs(jobs)

\* the backup was switched on at 6 hours and off again, and the one daily
\* digest timer is still there
C27_Witness ==
    /\ env.job_queue
    /\ hist.backup_cmd = "off"
    /\ settings["backup_interval_hours"] = 6
    /\ DailyJobs(jobs) = <<DailyJob>>

\* C28: with the timer facility, in every state (after startup, after every
\* backup:on and backup:off, after restarts) a backup timer is live exactly
\* when the stored backup_enabled setting is on; a restart leaves that so.
C28_TimerIffEnabled ==
    env.job_queue =>
        /\ (BackupJobs(jobs) # <<>>) <=> is_backup_enabled(St)
        /\ (BackupJobs(build_app(St).jobs) # <<>>) <=> is_backup_enabled(St)

\* the backup is enabled at 6 hours with its timer live, and a restart
\* installs the same schedule from the settings
C28_Witness ==
    /\ env.job_queue
    /\ is_backup_enabled(St)
    /\ settings["backup_interval_hours"] = 6
    /\ Len(BackupJobs(jobs)) = 1
    /\ BackupJobs(build_app(St).jobs) = BackupJobs(jobs)

-----------------------------------------------------------------------------
(* Claims about leaving the add flow by button                             *)

\* C26: the menu:home button pressed while the add flow waits for the
\* description or the date ends the flow and drops the pending description,
\* and the requester's next text creates no row.
C26_HomeButtonEndsAddFlow ==
    \A u \in Users, c \in ChatKinds :
        (conv[<<u, c>>] \in {ASK_DESC, ASK_DATE} /\ is_admin(St, u, c)) =>
            LET s == dispatch_callback(St, u, c, <<"menu", "home">>) IN
            /\ s.conv[<<u, c>>] = END
            /\ s.user_data[u].new_desc = None
            /\ \A t \in FlowTexts :
                   LET s2 == dispatch_text(s, u, c, t) IN
                   /\ s2.handler \notin {"add_got_desc", "add_got_date"}
                   /\ s2.products = s.products

-----------------------------------------------------------------------------
(* Two-requester specification: both requesters run add flows and operator *)
(* flows in their private chats, in any interleaving                       *)

PairCommands == {<<"add">>, <<"cancel">>}

PairTexts == {"VPN", "102"}

PairTokens == {<<"admins", "add">>, <<"admins", "remove">>, <<"menu", "add">>}

PairCommand ==
    \E u \in Users, m \in PairCommands : CommandEvent(u, "private", Head(m), Tail(m))

PairText == \E u \in Users, t \in PairTexts : TextEvent(u, "private", t)

PairButton == \E u \in Users, data \in PairTokens : CallbackEvent(u, "private", data)

PairNext == PairCommand \/ PairText \/ PairButton

\* the process starts with an empty registry and without the timer facility
PairInit == Init /\ env = [ADMIN_CHAT_ID |-> <<>>, job_queue |-> FALSE]

SpecPair == PairInit /\ [][PairNext]_vars

-----------------------------------------------------------------------------
(* Claims about the independence of requesters                             *)

\* what requester u has in flight: the add-flow state in every chat, the
\* pending description and the pending operator action
FlowState(s, u) == <<[c \in ChatKinds |-> s.conv[<<u, c>>]], s.user_data[u]>>

\* what requester a can send
EventsOf(s, a, c) ==
    {dispatch_command(s, a, c, m[1], Tail(m)) :
         m \in PairCommands \cup {<<"start">>, <<"renew", "1">>, <<"finish", "1">>}}
    \cup {dispatch_text(s, a, c, t) : t \in PairTexts \cup {"2025-01-01", "x"}}
    \cup {dispatch_callback(s, a, c, d) : d \in PairTokens \cup {<<"menu", "home">>}}

\* C23: no event of a requester, in whatever chat, changes another
\* requester's add-flow state, pending description or pending operator
\* action.
C23_RequestersIndependent ==
    \A a \in Users, b \in Users, c \in ChatKinds :
        a # b => \A s \in EventsOf(St, a, c) : FlowState(s, b) = FlowState(St, b)

\* requester 102 waits for a date with a description and an operator action
\* pending, after requester 101 has cancelled a flow with the same description
C23_Witness ==
    /\ conv[<<102, "private">>] = ASK_DATE
    /\ user_data[102] = [new_desc |-> "VPN", awaiting_admin_action |-> "add"]
    /\ conv[<<101, "private">>] = END
    /\ user_data[101].new_desc = None
    /\ hist.cancelled = "VPN"

-----------------------------------------------------------------------------
(* Grace-window specification: operator 101 switches the backup on and off *)
(* while the clock advances minute by minute, the job queue runs each job  *)
(* no earlier than its first instant, and the process may restart          *)

MinuteTick ==
    /\ now < MaxMinutes
    /\ now' = now + 1
    /\ UNCHANGED <<admins, products, settings, jobs, conv, user_data, env, hist,
                   pending, fanout>>

\* the job queue runs a job when its first instant has come
DueFire(i) ==
    /\ i \in DOMAIN jobs
    /\ jobs[i].first <= now
    /\ JobFire(i)

GraceTokens == {<<"backup", "on", "6">>, <<"backup", "off">>}

GraceButton == \E data \in GraceTokens : CallbackEvent(101, "private", data)

GraceFire == \E i \in DOMAIN jobs : DueFire(i)

GraceNext == GraceButton \/ MinuteTick \/ GraceFire \/ Restart

\* the process starts with the timer facility and operator 101 seeded
GraceInit == Init /\ env = [ADMIN_CHAT_ID |-> <<101>>, job_queue |-> TRUE]

SpecGrace == GraceInit /\ [][GraceNext]_vars

-----------------------------------------------------------------------------
(* Claims about the grace window                                           *)

\* C24: a backup:on:N that completes at minute t schedules the first run of
\* the backup timer for t + 5, and the first backup fire after it, if there
\* has been one, came at t + 5 or later (so none at the moment of
\* configuration), restarts in between included.
C24_FirstFireAfterGrace ==
    /\ hist.fired_at # -1 => hist.fired_at >= hist.on_at + GRACE_MINUTES
    /\ \A n \in {"0", "6", "12"} :
           LET s == BackupOn(St, 101, "private", n) IN
           s.reply = "backup_on" =>
               \A k \in DOMAIN BackupJobs(s.jobs) :
                   BackupJobs(s.jobs)[k].first = now + GRACE_MINUTES

\* the backup was switched on at minute 1 and fired first at minute 6
C24_Witness ==
    /\ hist.on_at = 1
    /\ hist.fired_at = 6

=============================================================================
